---- MODULE Spec2Model ----
(***************************************************************************)
(* A model of MLEngine (src/services/mlEngine.ts): feature scaling, the    *)
(* gradient-descent logistic regression, the k-nearest-neighbours vote and *)
(* the training-set accuracy, together with the caller that holds the      *)
(* array it handed to the constructor.                                     *)
(*                                                                         *)
(* Numbers.  A JavaScript number is modelled as a decimal fixed-point      *)
(* value: the integer v stands for v / Unit, every operation rounds to the *)
(* nearest representable value, a result beyond MaxFin overflows to        *)
(* +/-Infinity and NaN is a value of its own, with the IEEE-754 rules for  *)
(* the special values.  The sign of zero is not modelled.                  *)
(***************************************************************************)
EXTENDS Integers, Sequences, FiniteSets, TLC

\* ------------------------------------------------------------- numbers
\* One, in units of the smallest step; and the largest finite value.
Unit == 1000
MaxFin == 2000000
PosInf == MaxFin + 1
NegInf == -(MaxFin + 1)
NaN == MaxFin + 2

FromInt(n) == n * Unit
Abs(a) == IF a < 0 THEN -a ELSE a
isNaN(a) == a = NaN
IsFinite(a) == a >= -MaxFin /\ a <= MaxFin
Sign(a) == IF a < 0 THEN -1 ELSE 1
SignedInf(s) == IF s < 0 THEN NegInf ELSE PosInf

\* Exact integer quotient a / b (b # 0) rounded to nearest, halves away from zero.
RoundDiv(a, b) ==
  LET n == Abs(a)
      d == Abs(b)
      q == (2 * (n % d) >= d)
      m == (n \div d) + (IF q THEN 1 ELSE 0)
  IN IF Sign(a) = Sign(b) THEN m ELSE -m

\* Overflow of a finite result to an infinity.
Norm(x) == IF x > MaxFin THEN PosInf ELSE IF x < -MaxFin THEN NegInf ELSE x

Neg(a) == IF a = NaN THEN NaN ELSE -a

Add(a, b) ==
  IF a = NaN \/ b = NaN THEN NaN
  ELSE IF IsFinite(a) /\ IsFinite(b) THEN Norm(a + b)
  ELSE IF IsFinite(a) THEN b
  ELSE IF IsFinite(b) THEN a
  ELSE IF a = b THEN a ELSE NaN

Sub(a, b) == Add(a, Neg(b))

Mul(a, b) ==
  IF a = NaN \/ b = NaN THEN NaN
  ELSE IF a = 0 \/ b = 0
    THEN (IF IsFinite(a) /\ IsFinite(b) THEN 0 ELSE NaN)
  ELSE IF IsFinite(a) /\ IsFinite(b)
    THEN (IF Abs(a) > (MaxFin * Unit) \div Abs(b)
            THEN SignedInf(Sign(a) * Sign(b))
            ELSE Norm(RoundDiv(a * b, Unit)))
  ELSE SignedInf(Sign(a) * Sign(b))

Div(a, b) ==
  IF a = NaN \/ b = NaN THEN NaN
  ELSE IF IsFinite(a) /\ IsFinite(b)
    THEN (IF b = 0
            THEN (IF a = 0 THEN NaN ELSE SignedInf(a))
            ELSE Norm(RoundDiv(a * Unit, b)))
  ELSE IF IsFinite(b) THEN SignedInf(Sign(a) * Sign(b))
  ELSE IF IsFinite(a) THEN 0
  ELSE NaN

\* Comparisons: every comparison with NaN is false.
Gt(a, b) == a # NaN /\ b # NaN /\ a > b
Ge(a, b) == a # NaN /\ b # NaN /\ a >= b
Lt(a, b) == a # NaN /\ b # NaN /\ a < b

RECURSIVE ISqrtIter(_, _)
ISqrtIter(n, x) ==
  LET y == (x + n \div x) \div 2
  IN IF y >= x THEN x ELSE ISqrtIter(n, y)

\* Largest integer whose square is at most n (n >= 0), by Newton's iteration.
ISqrt(n) == IF n = 0 THEN 0 ELSE ISqrtIter(n, IF n < 46341 THEN n ELSE 46341)

\* Math.sqrt
Sqrt(a) ==
  IF a = NaN \/ a < 0 THEN NaN
  ELSE IF a = PosInf THEN PosInf
  ELSE LET n == a * Unit
           s == ISqrt(n)
       IN IF (n - s * s) > s THEN s + 1 ELSE s

\* Math.pow(x, 2)
Pow2(x) == Mul(x, x)

EulerE == 2718

RECURSIVE PowE(_)
PowE(q) == IF q = 0 THEN Unit ELSE Mul(EulerE, PowE(q - 1))

\* e^r for 0 <= r < 1: the Taylor series up to r^6/720, in Horner form.
ExpFrac(r) ==
  LET t6 == Unit + RoundDiv(r, 6)
      t5 == Unit + RoundDiv(r * t6, 5 * Unit)
      t4 == Unit + RoundDiv(r * t5, 4 * Unit)
      t3 == Unit + RoundDiv(r * t4, 3 * Unit)
      t2 == Unit + RoundDiv(r * t3, 2 * Unit)
  IN Unit + RoundDiv(r * t2, Unit)

MaxExpArg == 8

\* e^a for finite a >= 0; beyond MaxExpArg the result exceeds MaxFin.
ExpPos(a) ==
  IF a \div Unit >= MaxExpArg THEN PosInf
  ELSE Mul(PowE(a \div Unit), ExpFrac(a % Unit))

\* Math.exp
Exp(a) ==
  IF a = NaN THEN NaN
  ELSE IF a = PosInf THEN PosInf
  ELSE IF a = NegInf THEN 0
  ELSE IF a >= 0 THEN ExpPos(a)
  ELSE Div(Unit, ExpPos(-a))

\* Math.exp(z): the odds, not the probability
Sigmoid_Odds(z) == Exp(z)

\* 1 / (1 + Math.exp(-z))
Sigmoid(z) == Div(Unit, Add(Unit, Exp(Neg(z))))

\* ------------------------------------------------------ the caller's data
\* A record of CustomerData: Age, EstimatedSalary and Purchased are numbers.
CustomerData(a, s, p) ==
  [Age |-> FromInt(a), EstimatedSalary |-> FromInt(s), Purchased |-> FromInt(p)]

\* The records a caller builds its arrays from.
Records ==
  { CustomerData(20, 30, 0), CustomerData(40, 50, 1), CustomerData(20, 50, 1) }

MaxLen == 3

RECURSIVE SeqsUpTo(_)
SeqsUpTo(n) ==
  IF n = 0 THEN { <<>> }
  ELSE LET shorter == SeqsUpTo(n - 1)
       IN shorter \cup { Append(s, r) : s \in { t \in shorter : Len(t) = n - 1 }, r \in Records }

\* The arrays a caller may pass to the constructor (the empty array included).
Datasets == SeqsUpTo(MaxLen)

\* ------------------------------------------------------------- MLEngine
VARIABLES
  heap,          \* the arrays: "arg" is the caller's array, "own" the field initialiser's []
  trainingData,  \* this.trainingData: a reference into heap
  scaleParams,   \* this.scaleParams
  lrWeights,     \* this.lrWeights
  lrBias,        \* this.lrBias
  pc,            \* "new": before the constructor; "train": in the training loop;
                 \* "ready": constructed; "returned": a query has just returned
  train,         \* the locals of trainLogisticRegression: i, w1, w2, b, m, scaledData
  built,         \* the contents of the caller's array when the constructor ran
  mutations,     \* how often the caller has changed its array since
  last,          \* the query that has just returned: its arguments, locals and result
  twin,          \* an engine constructed earlier, kept for comparison with this one
  app            \* the state of the App component that owns the engine

vars == << heap, trainingData, scaleParams, lrWeights, lrBias, pc, train, built,
           mutations, last, twin, app >>

RECURSIVE reduceAdd(_, _)
\* xs.reduce((a, b) => a + b, 0), taken from index j on
reduceAdd(xs, j) ==
  IF j = 0 THEN 0 ELSE Add(reduceAdd(xs, j - 1), xs[j])

sum(xs) == reduceAdd(xs, Len(xs))

\* the substitution of 1 left out
OrOne_Dropped(x) == x

\* x || 1
OrOne(x) == IF x = 0 \/ x = NaN THEN Unit ELSE x

\* the sample standard deviation: the squared deviations divided by n - 1
calculateScaling_SampleStd(td) ==
  LET ages == [i \in 1..Len(td) |-> td[i].Age]
      salaries == [i \in 1..Len(td) |-> td[i].EstimatedSalary]
      len == FromInt(Len(td))
      meanAge == Div(sum(ages), len)
      meanSalary == Div(sum(salaries), len)
      stdAge ==
        Sqrt(Div(sum([i \in 1..Len(td) |-> Pow2(Sub(ages[i], meanAge))]), Sub(len, Unit)))
      stdSalary ==
        Sqrt(Div(sum([i \in 1..Len(td) |-> Pow2(Sub(salaries[i], meanSalary))]),
                 Sub(len, Unit)))
  IN [mean |-> <<meanAge, meanSalary>>, std |-> <<OrOne(stdAge), OrOne(stdSalary)>>]

calculateScaling(td) ==
  LET ages == [i \in 1..Len(td) |-> td[i].Age]
      salaries == [i \in 1..Len(td) |-> td[i].EstimatedSalary]
      len == FromInt(Len(td))
      meanAge == Div(sum(ages), len)
      meanSalary == Div(sum(salaries), len)
      stdAge == Sqrt(Div(sum([i \in 1..Len(td) |-> Pow2(Sub(ages[i], meanAge))]), len))
      stdSalary ==
        Sqrt(Div(sum([i \in 1..Len(td) |-> Pow2(Sub(salaries[i], meanSalary))]), len))
  IN [mean |-> <<meanAge, meanSalary>>, std |-> <<OrOne(stdAge), OrOne(stdSalary)>>]

scale(sp, age, salary) ==
  << Div(Sub(age, sp.mean[1]), sp.std[1]), Div(Sub(salary, sp.mean[2]), sp.std[2]) >>

learningRate == 100
iterations == 1000

\* scaledData of trainLogisticRegression
ScaledData(td, sp) ==
  [i \in 1..Len(td) |->
     [scaled |-> scale(sp, td[i].Age, td[i].EstimatedSalary), Purchased |-> td[i].Purchased]]

RECURSIVE Gradient(_, _, _, _, _)
\* <<dw1, dw2, db>> after the inner loop has visited the first j records
Gradient(sd, j, w1, w2, b) ==
  LET Accumulate(g, x, diff) ==
        << Add(g[1], Mul(diff, x[1])), Add(g[2], Mul(diff, x[2])), Add(g[3], diff) >>
      Visit(g, d) ==
        Accumulate(g, d.scaled,
                   Sub(Sigmoid(Add(Add(Mul(w1, d.scaled[1]), Mul(w2, d.scaled[2])), b)),
                       d.Purchased))
  IN IF j = 0 THEN << 0, 0, 0 >> ELSE Visit(Gradient(sd, j - 1, w1, w2, b), sd[j])

\* One pass of the outer loop with a convergence test: the loop is left as soon as
\* the accumulated gradient is zero.
Iteration_EarlyStop(t) ==
  LET Update(g, rate) ==
        IF g = << 0, 0, 0 >>
          THEN [t EXCEPT !.i = iterations]
          ELSE [t EXCEPT !.w1 = Sub(t.w1, Mul(rate, g[1])),
                         !.w2 = Sub(t.w2, Mul(rate, g[2])),
                         !.b = Sub(t.b, Mul(rate, g[3])),
                         !.i = t.i + 1]
  IN Update(Gradient(t.scaledData, Len(t.scaledData), t.w1, t.w2, t.b),
            Div(learningRate, t.m))

\* One pass of the outer loop: the locals after it.
Iteration(t) ==
  LET Update(g, rate) ==
        [t EXCEPT !.w1 = Sub(t.w1, Mul(rate, g[1])),
                  !.w2 = Sub(t.w2, Mul(rate, g[2])),
                  !.b = Sub(t.b, Mul(rate, g[3])),
                  !.i = t.i + 1]
  IN Update(Gradient(t.scaledData, Len(t.scaledData), t.w1, t.w2, t.b),
            Div(learningRate, t.m))

\* ---------------------------------------------------------------- queries
\* purchased: prob > 0.5
predictLogisticRegression_Strict(sp, w, bias, age, salary) ==
  LET Return(prob) == [purchased |-> Gt(prob, Unit \div 2), probability |-> prob]
      Score(s) == Return(Sigmoid(Add(Add(Mul(w[1], s[1]), Mul(w[2], s[2])), bias)))
  IN Score(scale(sp, age, salary))

predictLogisticRegression(sp, w, bias, age, salary) ==
  LET Return(prob) == [purchased |-> Ge(prob, Unit \div 2), probability |-> prob]
      Score(s) == Return(Sigmoid(Add(Add(Mul(w[1], s[1]), Mul(w[2], s[2])), bias)))
  IN Score(scale(sp, age, salary))

\* The comparator (a, b) => a.dist < b.dist ? -1 : 1, which never answers "equal"
compare_NeverEqual(a, b) == IF Lt(a.dist, b.dist) THEN -1 ELSE 1

\* The comparator (a, b) => a.dist - b.dist as Array.prototype.sort reads it:
\* negative, positive or zero, a NaN difference counting as zero.
compare(a, b) ==
  LET Read(v) == IF v = NaN THEN 0 ELSE IF v < 0 THEN -1 ELSE IF v > 0 THEN 1 ELSE 0
  IN Read(Sub(a.dist, b.dist))

RECURSIVE insertPos_Unstable(_, _, _)
\* x is put in front of the elements it compares equal to
insertPos_Unstable(s, x, j) ==
  IF j = 0 THEN 0
  ELSE IF compare(s[j], x) >= 0 THEN insertPos_Unstable(s, x, j - 1) ELSE j

RECURSIVE insertPos(_, _, _)
\* where x goes in the sorted s: behind the last element that does not compare greater
insertPos(s, x, j) ==
  IF j = 0 THEN 0
  ELSE IF compare(s[j], x) > 0 THEN insertPos(s, x, j - 1) ELSE j

RECURSIVE sortPrefix(_, _)
sortPrefix(arr, n) ==
  LET InsertAt(s, x, j) == SubSeq(s, 1, j) \o << x >> \o SubSeq(s, j + 1, Len(s))
      Insert(s, x) == InsertAt(s, x, insertPos(s, x, Len(s)))
  IN IF n = 0 THEN << >> ELSE Insert(sortPrefix(arr, n - 1), arr[n])

\* Array.prototype.sort with the comparator above: a stable sort
sort(arr) == sortPrefix(arr, Len(arr))

\* arr.slice(1, k + 1): the nearest record is skipped
slice_SkipsFirst(arr, k) == SubSeq(arr, 2, IF k + 1 < Len(arr) THEN k + 1 ELSE Len(arr))

\* arr.slice(0, k)
slice(arr, k) == SubSeq(arr, 1, IF k < Len(arr) THEN k ELSE Len(arr))

\* the distances taken to the records as they are, not to their scaled features
distancesOf_RawRecords(td, sp, s) ==
  LET Entry(ds, d) ==
        [dist |-> Sqrt(Add(Pow2(Sub(s[1], ds[1])), Pow2(Sub(s[2], ds[2])))),
         purchased |-> d.Purchased]
  IN [i \in 1..Len(td) |-> Entry(<< td[i].Age, td[i].EstimatedSalary >>, td[i])]

\* the distances array built by trainingData.map, for the scaled query point s
distancesOf(td, sp, s) ==
  LET Entry(ds, d) ==
        [dist |-> Sqrt(Add(Pow2(Sub(s[1], ds[1])), Pow2(Sub(s[2], ds[2])))),
         purchased |-> d.Purchased]
  IN [i \in 1..Len(td) |-> Entry(scale(sp, td[i].Age, td[i].EstimatedSalary), td[i])]

\* this.trainingData sorted in place by distance, in step with distances
sortDistances_InPlace(td, distances) ==
  LET Split(tagged) ==
        [trainingData |-> [i \in 1..Len(tagged) |-> tagged[i].record],
         distances |-> [i \in 1..Len(tagged) |->
                          [dist |-> tagged[i].dist, purchased |-> tagged[i].purchased]]]
  IN Split(sort([i \in 1..Len(td) |->
                   [dist |-> distances[i].dist, purchased |-> distances[i].purchased,
                    record |-> td[i]]]))

\* distances.sort(...): the arrays after the call, which sorts distances in place
sortDistances(td, distances) == [trainingData |-> td, distances |-> sort(distances)]

\* neighbors.filter(n => n.purchased === 1).length
countPurchased(neighbors) == Len(SelectSeq(neighbors, LAMBDA n : n.purchased = Unit))

\* purchasedCount >= k / 2
knnPurchased_AtLeastHalf(purchasedCount, k) ==
  Ge(FromInt(purchasedCount), Div(FromInt(k), FromInt(2)))

\* purchasedCount > k / 2
knnPurchased(purchasedCount, k) ==
  Gt(FromInt(purchasedCount), Div(FromInt(k), FromInt(2)))

\* purchasedCount / neighbors.length
knnProbability_OverNeighbors(purchasedCount, k, neighbors) ==
  Div(FromInt(purchasedCount), FromInt(Len(neighbors)))

\* purchasedCount / k
knnProbability(purchasedCount, k, neighbors) == Div(FromInt(purchasedCount), FromInt(k))

\* predictKNN: its return value, its locals and the training array when it returns
predictKNN(td, sp, age, salary, k) ==
  LET Return(after, neighbors, purchasedCount) ==
        [ret |-> [purchased |-> knnPurchased(purchasedCount, k),
                  probability |-> knnProbability(purchasedCount, k, neighbors)],
         distances |-> after.distances,
         neighbors |-> neighbors,
         purchasedCount |-> purchasedCount,
         trainingData |-> after.trainingData]
      Count(after, neighbors) == Return(after, neighbors, countPurchased(neighbors))
      Select(after) == Count(after, slice(after.distances, k))
  IN Select(sortDistances(td, distancesOf(td, sp, scale(sp, age, salary))))

\* the default value of predictKNN's parameter k
defaultK == 5

\* pred === d.Purchased: a boolean is never strictly equal to a number
matches_BooleanToNumber(pred, d) == FALSE

\* (pred ? 1 : 0) === d.Purchased
matches(pred, d) == (IF pred THEN Unit ELSE 0) = d.Purchased

\* One round of the for loop of getAccuracy, for the record at index j: the count
\* of correct predictions and the training array after it.
accuracyRound(before, sp, w, bias, algorithm, j) ==
  LET Tally(d, pred, after) ==
        [correct |-> before.correct + (IF matches(pred, d) THEN 1 ELSE 0),
         trainingData |-> after]
      Knn(d, call) == Tally(d, call.ret.purchased, call.trainingData)
      Round(now, d) ==
        IF algorithm = "LR"
          THEN Tally(d, predictLogisticRegression(sp, w, bias, d.Age,
                                                  d.EstimatedSalary).purchased, now)
          ELSE Knn(d, predictKNN(now, sp, d.Age, d.EstimatedSalary, defaultK))
  IN Round(before.trainingData, before.trainingData[j])

RECURSIVE accuracyLoop(_, _, _, _, _, _)
\* the for loop of getAccuracy after its first j rounds
accuracyLoop(td, sp, w, bias, algorithm, j) ==
  IF j = 0 THEN [correct |-> 0, trainingData |-> td]
  ELSE accuracyRound(accuracyLoop(td, sp, w, bias, algorithm, j - 1), sp, w, bias,
                     algorithm, j)

getAccuracy(td, sp, w, bias, algorithm) ==
  LET Return(end) ==
        [ret |-> Div(FromInt(end.correct), FromInt(Len(end.trainingData))),
         correct |-> end.correct,
         trainingData |-> end.trainingData]
  IN Return(accuracyLoop(td, sp, w, bias, algorithm, Len(td)))

\* ------------------------------------------------------------ the inputs
\* The query points <<age, salary>> a caller asks about.
Queries ==
  { << FromInt(20), FromInt(30) >>, << FromInt(30), FromInt(40) >>,
    << FromInt(40), FromInt(50) >>, << FromInt(30), FromInt(50) >>,
    << NaN, FromInt(40) >>, << PosInf, FromInt(40) >>,
    << FromInt(30), NegInf >>, << PosInf, PosInf >> }
MaxK == 4
MaxMutations == 1

NoTrain == [i |-> 0, w1 |-> 0, w2 |-> 0, b |-> 0, m |-> 0, scaledData |-> << >>]
NoQuery == [op |-> "none"]
NoTwin == [set |-> FALSE]
NoApp == [mounted |-> FALSE]

\* The fields of an MLEngine before its constructor body runs, the caller holding
\* the array d.
Fresh(d) ==
  /\ heap = [arg |-> d, own |-> << >>]
  /\ trainingData = "own"
  /\ scaleParams = [mean |-> <<0, 0>>, std |-> <<Unit, Unit>>]
  /\ lrWeights = <<0, 0>>
  /\ lrBias = 0
  /\ pc = "new"
  /\ train = NoTrain
  /\ built = << >>
  /\ mutations = 0
  /\ last = NoQuery

Init ==
  /\ \E d \in Datasets : Fresh(d)
  /\ twin = NoTwin
  /\ app = NoApp

\* new MLEngine(data) with the weights drawn at random: let w1 = Math.random()
Construct_RandomInit ==
  /\ pc = "new"
  /\ trainingData' = "arg"
  /\ \E w0 \in { 0, Unit } :
       LET Scaled(td, sp) ==
             /\ scaleParams' = sp
             /\ train' = [i |-> 0, w1 |-> w0, w2 |-> 0, b |-> 0, m |-> FromInt(Len(td)),
                          scaledData |-> ScaledData(td, sp)]
             /\ built' = td
       IN Scaled(heap["arg"], calculateScaling(heap["arg"]))
  /\ pc' = "train"
  /\ UNCHANGED << heap, lrWeights, lrBias, mutations, last, twin, app >>

\* new MLEngine(data), up to the head of the training loop
Construct ==
  /\ pc = "new"
  /\ trainingData' = "arg"
  /\ LET Scaled(td, sp) ==
           /\ scaleParams' = sp
           /\ train' = [i |-> 0, w1 |-> 0, w2 |-> 0, b |-> 0, m |-> FromInt(Len(td)),
                        scaledData |-> ScaledData(td, sp)]
           /\ built' = td
     IN Scaled(heap["arg"], calculateScaling(heap["arg"]))
  /\ pc' = "train"
  /\ UNCHANGED << heap, lrWeights, lrBias, mutations, last, twin, app >>

\* one iteration of the for loop of trainLogisticRegression
TrainIteration ==
  /\ pc = "train"
  /\ train.i < iterations
  /\ train' = Iteration(train)
  /\ UNCHANGED << heap, trainingData, scaleParams, lrWeights, lrBias, pc, built,
                  mutations, last, twin, app >>

\* the loop is left, the weights are stored and the constructor returns
TrainFinish ==
  /\ pc = "train"
  /\ ~(train.i < iterations)
  /\ lrWeights' = << train.w1, train.w2 >>
  /\ lrBias' = train.b
  /\ pc' = "ready"
  /\ UNCHANGED << heap, trainingData, scaleParams, train, built, mutations, last,
                  twin, app >>

\* mlEngine.predictLogisticRegression(age, salary)
PredictLogisticRegression ==
  /\ pc = "ready"
  /\ \E q \in Queries :
       last' = [op |-> "predictLogisticRegression", age |-> q[1], salary |-> q[2],
                ret |-> predictLogisticRegression(scaleParams, lrWeights, lrBias, q[1], q[2])]
  /\ pc' = "returned"
  /\ UNCHANGED << heap, trainingData, scaleParams, lrWeights, lrBias, train, built,
                  mutations, twin, app >>

\* mlEngine.predictKNN(age, salary, k)
PredictKNN ==
  /\ pc = "ready"
  /\ \E q \in Queries, k \in 1..MaxK :
       LET Returns(call) ==
             /\ last' = [op |-> "predictKNN", age |-> q[1], salary |-> q[2], k |-> k,
                         distances |-> call.distances, neighbors |-> call.neighbors,
                         purchasedCount |-> call.purchasedCount, ret |-> call.ret]
             /\ heap' = [heap EXCEPT ![trainingData] = call.trainingData]
       IN Returns(predictKNN(heap[trainingData], scaleParams, q[1], q[2], k))
  /\ pc' = "returned"
  /\ UNCHANGED << trainingData, scaleParams, lrWeights, lrBias, train, built, mutations,
                  twin, app >>

\* mlEngine.getAccuracy(algorithm)
GetAccuracy ==
  /\ pc = "ready"
  /\ \E algorithm \in { "LR", "KNN" } :
       LET Returns(call) ==
             /\ last' = [op |-> "getAccuracy", algorithm |-> algorithm,
                         correct |-> call.correct, ret |-> call.ret]
             /\ heap' = [heap EXCEPT ![trainingData] = call.trainingData]
       IN Returns(getAccuracy(heap[trainingData], scaleParams, lrWeights, lrBias,
                              algorithm))
  /\ pc' = "returned"
  /\ UNCHANGED << trainingData, scaleParams, lrWeights, lrBias, train, built, mutations,
                  twin, app >>

\* The caller changes the array it passed to the constructor: push, pop, reverse, or
\* an edit of the first record's label.
CallerMutate ==
  /\ pc = "ready"
  /\ mutations < MaxMutations
  /\ LET d == heap["arg"]
     IN \/ \E r \in Records : Len(d) < MaxLen /\ heap' = [heap EXCEPT !["arg"] = Append(d, r)]
        \/ Len(d) > 0 /\ heap' = [heap EXCEPT !["arg"] = SubSeq(d, 1, Len(d) - 1)]
        \/ Len(d) > 1 /\ heap' = [heap EXCEPT !["arg"] = [i \in 1..Len(d) |-> d[Len(d) + 1 - i]]]
        \/ Len(d) > 0 /\ heap' = [heap EXCEPT !["arg"][1].Purchased = Unit - @]
  /\ mutations' = mutations + 1
  /\ UNCHANGED << trainingData, scaleParams, lrWeights, lrBias, pc, train, built, last,
                  twin, app >>

\* The caller has read the result of its query and is free to go on.
Return ==
  /\ pc = "returned"
  /\ pc' = "ready"
  /\ last' = NoQuery
  /\ UNCHANGED << heap, trainingData, scaleParams, lrWeights, lrBias, train, built,
                  mutations, twin, app >>

Next ==
  \/ Construct
  \/ TrainIteration
  \/ TrainFinish
  \/ PredictLogisticRegression
  \/ PredictKNN
  \/ GetAccuracy
  \/ CallerMutate
  \/ Return

Spec == Init /\ [][Next]_vars

\* The constructor runs to completion once it is called: its body and the training
\* loop are synchronous code, so each of their steps is taken when it is enabled.
\* Construct and TrainIteration always change pc or train.i, so each is enabled
\* exactly when its guard holds; their weak fairness is written with that guard.
FairConstruct == []<>~(pc = "new") \/ []<><<Construct>>_vars

FairTrainIteration ==
  []<>~(pc = "train" /\ train.i < iterations) \/ []<><<TrainIteration>>_vars

FairSpec ==
  /\ Init
  /\ [][Next]_vars
  /\ FairConstruct
  /\ FairTrainIteration
  /\ WF_vars(TrainFinish)

\* ---------------------------------------------- values near the largest number
\* Arrays of finite values, some of them near the largest finite number, where a
\* sum or a square leaves the finite range.
ExtremeDatasets ==
  { << CustomerData(1500, 30, 0), CustomerData(1500, 50, 1) >>,
    << CustomerData(1000, 30, 0), CustomerData(1000, 30, 0), CustomerData(1000, 50, 1) >>,
    << CustomerData(1500, 30, 1) >>,
    << CustomerData(-1500, 30, 0), CustomerData(1500, 50, 1) >>,
    << CustomerData(20, 30, 0), CustomerData(20, 50, 1) >>,
    << CustomerData(20, 30, 0), CustomerData(40, 50, 1) >>,
    << CustomerData(20, 30, 0), CustomerData(40, 50, 1), CustomerData(20, 50, 1) >>,
    << CustomerData(40, 50, 1), CustomerData(20, 50, 1), CustomerData(20, 50, 1) >> }

InitExtreme ==
  /\ \E d \in ExtremeDatasets : Fresh(d)
  /\ twin = NoTwin
  /\ app = NoApp

SpecExtreme == InitExtreme /\ [][Next]_vars


\* ------------------------------------------------------- a second engine
\* The arrays two engines are built from, one after the other.
TwinDatasets ==
  { << CustomerData(20, 30, 0), CustomerData(40, 50, 1) >>,
    << CustomerData(20, 30, 0), CustomerData(20, 50, 1) >>,
    << CustomerData(40, 50, 1), CustomerData(20, 50, 1) >>,
    << CustomerData(20, 30, 0), CustomerData(40, 50, 1), CustomerData(20, 50, 1) >>,
    << CustomerData(20, 50, 1), CustomerData(40, 50, 1), CustomerData(20, 30, 0) >>,
    << CustomerData(20, 30, 0), CustomerData(40, 50, 1), CustomerData(40, 30, 1) >> }

\* The positive constants Age is multiplied by for the second engine; 1 leaves the
\* data as they are.
Factors == { FromInt(1), FromInt(2), FromInt(5) }

\* data.map(d => ({ ...d, Age: d.Age * c })): a new array
Rescaled(td, c) == [i \in 1..Len(td) |-> [td[i] EXCEPT !.Age = Mul(c, @)]]

InitTwin ==
  /\ \E d \in TwinDatasets : Fresh(d)
  /\ twin = NoTwin
  /\ app = NoApp

\* The caller keeps the engine it has and calls new MLEngine on a new array that
\* holds the same records, Age multiplied by c: the fields of the new object are
\* those of the field initialisers until its constructor body runs.
ConstructRescaled ==
  /\ pc = "ready"
  /\ ~twin.set
  /\ \E c \in Factors :
       /\ twin' = [set |-> TRUE, factor |-> c, trainingData |-> heap[trainingData],
                   scaleParams |-> scaleParams, lrWeights |-> lrWeights,
                   lrBias |-> lrBias]
       /\ heap' = [arg |-> Rescaled(heap[trainingData], c), own |-> << >>]
  /\ trainingData' = "own"
  /\ scaleParams' = [mean |-> <<0, 0>>, std |-> <<Unit, Unit>>]
  /\ lrWeights' = <<0, 0>>
  /\ lrBias' = 0
  /\ pc' = "new"
  /\ train' = NoTrain
  /\ built' = << >>
  /\ UNCHANGED << mutations, last, app >>

\* The second engine is asked about a query point whose Age is multiplied by the
\* same constant: mlEngine.predictKNN(age * c, salary, k)
PredictKNNRescaled ==
  /\ pc = "ready"
  /\ twin.set
  /\ \E q \in Queries, k \in 1..MaxK :
       LET Returns(age, call) ==
             /\ last' = [op |-> "predictKNN", age |-> age, salary |-> q[2], k |-> k,
                         distances |-> call.distances, neighbors |-> call.neighbors,
                         purchasedCount |-> call.purchasedCount, ret |-> call.ret,
                         asked |-> q]
             /\ heap' = [heap EXCEPT ![trainingData] = call.trainingData]
           Asks(age) ==
             Returns(age, predictKNN(heap[trainingData], scaleParams, age, q[2], k))
       IN Asks(Mul(twin.factor, q[1]))
  /\ pc' = "returned"
  /\ UNCHANGED << trainingData, scaleParams, lrWeights, lrBias, train, built, mutations,
                  twin, app >>

NextTwin ==
  \/ Construct
  \/ TrainIteration
  \/ TrainFinish
  \/ PredictLogisticRegression
  \/ PredictKNN
  \/ GetAccuracy
  \/ Return
  \/ ConstructRescaled
  \/ PredictKNNRescaled

SpecTwin == InitTwin /\ [][NextTwin]_vars

\* ------------------------------------------------------- the App component
\* DEFAULT_DATA, scaled down to a few records.
DEFAULT_DATA == << CustomerData(20, 30, 0), CustomerData(40, 50, 1) >>

\* What reader.onload parses from an uploaded CSV file: records, or none at all.
Parsed ==
  { << CustomerData(20, 50, 1), CustomerData(40, 30, 0) >>,
    << CustomerData(20, 30, 0), CustomerData(40, 50, 1), CustomerData(20, 50, 1) >>,
    << >> }

\* The positions of the age and salary sliders; the first render has age 38 and
\* the salary of useState(85000), scaled down to the salaries of the records.
AppAges == { FromInt(38), FromInt(20) }
AppSalaries == { FromInt(50), FromInt(30) }

\* How many uploads replace the data set in one run of the App.
MaxUploads == 1

NoPending == [set |-> FALSE]
NoResults == [set |-> FALSE]

\* The engine the current render holds: useMemo(() => new MLEngine(data), [data]).
\* The App never writes to an array it has passed to setData, so the engine is
\* determined by its fields and the records of its array.
mlEngine ==
  [trainingData |-> heap[trainingData], scaleParams |-> scaleParams,
   lrWeights |-> lrWeights, lrBias |-> lrBias]

\* The first render: data is DEFAULT_DATA, the engine is about to be constructed.
InitApp ==
  /\ Fresh(DEFAULT_DATA)
  /\ app = [mounted |-> TRUE, data |-> DEFAULT_DATA, age |-> FromInt(38),
            salary |-> FromInt(50), isPredicting |-> FALSE, pending |-> NoPending,
            results |-> NoResults, uploads |-> 0]
  /\ twin = NoTwin

\* onChange of the age slider: setAge(parseInt(e.target.value))
SetAge ==
  /\ pc = "ready"
  /\ \E a \in AppAges : app' = [app EXCEPT !.age = a]
  /\ UNCHANGED << heap, trainingData, scaleParams, lrWeights, lrBias, pc, train, built,
                  mutations, last, twin >>

\* onChange of the salary slider: setSalary(parseInt(e.target.value))
SetSalary ==
  /\ pc = "ready"
  /\ \E y \in AppSalaries : app' = [app EXCEPT !.salary = y]
  /\ UNCHANGED << heap, trainingData, scaleParams, lrWeights, lrBias, pc, train, built,
                  mutations, last, twin >>

\* handlePredict up to its await: the button is enabled only while isPredicting is
\* false; the continuation keeps the mlEngine, age and salary of the render whose
\* handler was clicked.
HandlePredict ==
  /\ pc = "ready"
  /\ ~app.isPredicting
  /\ app' = [app EXCEPT !.isPredicting = TRUE,
                        !.pending = [set |-> TRUE, mlEngine |-> mlEngine,
                                     age |-> app.age, salary |-> app.salary]]
  /\ UNCHANGED << heap, trainingData, scaleParams, lrWeights, lrBias, pc, train, built,
                  mutations, last, twin >>

\* reader.onload of handleFileUpload: setData(parsed) when records were parsed, and
\* the render that follows, whose useMemo sees a new array and calls new MLEngine.
FileLoaded ==
  /\ pc = "ready"
  /\ app.uploads < MaxUploads
  /\ \E parsed \in Parsed :
       IF Len(parsed) # 0
         THEN /\ app' = [app EXCEPT !.data = parsed, !.uploads = @ + 1]
              /\ heap' = [arg |-> parsed, own |-> << >>]
              /\ trainingData' = "own"
              /\ scaleParams' = [mean |-> <<0, 0>>, std |-> <<Unit, Unit>>]
              /\ lrWeights' = <<0, 0>>
              /\ lrBias' = 0
              /\ pc' = "new"
              /\ train' = NoTrain
              /\ built' = << >>
              /\ UNCHANGED << mutations, last, twin >>
         ELSE UNCHANGED vars

\* handlePredict after the 800 ms timer: both predictions and both accuracies are
\* taken from the engine the handler kept and stored with setResults; isPredicting
\* becomes false.  The stored record also notes the array that engine was built
\* from and the data set the App holds at this moment.
TimerFires ==
  /\ pc = "ready"
  /\ app.pending.set
  /\ LET Stores(e, lr, knn) ==
           app' = [app EXCEPT
                     !.isPredicting = FALSE,
                     !.pending = NoPending,
                     !.results =
                        [set |-> TRUE,
                         lr |-> [purchased |-> lr.purchased,
                                 probability |-> lr.probability,
                                 accuracy |-> getAccuracy(e.trainingData, e.scaleParams,
                                                  e.lrWeights, e.lrBias, "LR").ret],
                         knn |-> [purchased |-> knn.purchased,
                                  probability |-> knn.probability,
                                  accuracy |-> getAccuracy(e.trainingData, e.scaleParams,
                                                   e.lrWeights, e.lrBias, "KNN").ret],
                         trainingData |-> e.trainingData,
                         data |-> app.data,
                         uploads |-> app.uploads]]
         Resumes(e, age, salary) ==
           Stores(e,
                  predictLogisticRegression(e.scaleParams, e.lrWeights, e.lrBias,
                                            age, salary),
                  predictKNN(e.trainingData, e.scaleParams, age, salary, defaultK).ret)
     IN Resumes(app.pending.mlEngine, app.pending.age, app.pending.salary)
  /\ UNCHANGED << heap, trainingData, scaleParams, lrWeights, lrBias, pc, train, built,
                  mutations, last, twin >>

NextApp ==
  \/ Construct
  \/ TrainIteration
  \/ TrainFinish
  \/ SetAge
  \/ SetSalary
  \/ HandlePredict
  \/ FileLoaded
  \/ TimerFires

SpecApp == InitApp /\ [][NextApp]_vars

\* ----------------------------------------------------------------- claims
\* The engine has been constructed.
Constructed == pc \in { "ready", "returned" }

\* The array this.trainingData refers to.
TrainingSet == heap[trainingData]

\* The records of the data sets used as examples.
RecA == CustomerData(20, 30, 0)
RecB == CustomerData(40, 50, 1)
RecC == CustomerData(20, 50, 1)

\* C1 (as stated): constructing the engine with an empty record sequence fails, so
\* that an engine exists only for a sequence of length >= 1.
C1_EmptyIsRejected == Constructed => built # << >>

\* C1 (as amended): the constructor raises no error for any array, the empty one
\* included.  From an empty array it builds an engine whose means are NaN, whose
\* standard deviations are 1 and whose weights and bias are NaN; while the array is
\* still empty, that engine answers predictLogisticRegression with probability NaN
\* and purchased = false, predictKNN with probability 0 and purchased = false, and
\* getAccuracy with NaN.  From an array of length >= 1 (of finite features of
\* ordinary size) it builds an engine with finite means, positive finite standard
\* deviations and finite weights and bias.
C1_EmptyEngineIsBuilt ==
  /\ (Constructed /\ Len(built) >= 1) =>
       /\ \A f \in 1..2 : /\ IsFinite(scaleParams.mean[f])
                           /\ IsFinite(scaleParams.std[f]) /\ scaleParams.std[f] > 0
                           /\ IsFinite(lrWeights[f])
       /\ IsFinite(lrBias)
  /\ (Constructed /\ built = << >>) =>
       /\ isNaN(scaleParams.mean[1]) /\ isNaN(scaleParams.mean[2])
       /\ scaleParams.std = << Unit, Unit >>
       /\ isNaN(lrWeights[1]) /\ isNaN(lrWeights[2]) /\ isNaN(lrBias)
       /\ (pc = "returned" /\ TrainingSet = << >>) =>
            /\ last.op = "predictLogisticRegression" =>
                 isNaN(last.ret.probability) /\ ~last.ret.purchased
            /\ last.op = "predictKNN" =>
                 last.ret = [purchased |-> FALSE, probability |-> 0]
            /\ last.op = "getAccuracy" => isNaN(last.ret)

\* An engine built from the empty array has answered an accuracy query.
C1_Witness ==
  pc = "returned" /\ built = << >> /\ TrainingSet = << >> /\ last.op = "getAccuracy"

\* C2 (as stated): for a training set in which every record has label 1, the accuracy
\* of KNN and the accuracy of logistic regression are both exactly 1.
C2_AllPurchasedAccuracyIsOne ==
  ( /\ pc = "returned"
    /\ last.op = "getAccuracy"
    /\ TrainingSet = built
    /\ Len(built) >= 1
    /\ \A i \in 1..Len(built) : built[i].Purchased = Unit )
  => last.ret = Unit

\* The result the engine gives to the query in `last` when it reads the array td.
AnswerOn(td) ==
  IF last.op = "predictLogisticRegression"
    THEN predictLogisticRegression(scaleParams, lrWeights, lrBias, last.age, last.salary)
  ELSE IF last.op = "predictKNN"
    THEN predictKNN(td, scaleParams, last.age, last.salary, last.k).ret
  ELSE getAccuracy(td, scaleParams, lrWeights, lrBias, last.algorithm).ret

\* C3 (as stated): the engine owns its training set by value, so every answer an
\* engine built from a non-empty array gives is the answer computed from the records
\* it was constructed with, whatever the caller has done to its array since.
C3_OwnsTrainingSetByValue ==
  (pc = "returned" /\ Len(built) >= 1) => last.ret = AnswerOn(built)

\* The records of the array as it is now, in the order the query in `last` met them,
\* with their distances to the query point: what trainingData.map built.
QueryDistances ==
  distancesOf(TrainingSet, scaleParams, scale(scaleParams, last.age, last.salary))

KnnReturned == pc = "returned" /\ last.op = "predictKNN"

\* C4: a query leaves the training set (contents and order), the scaling parameters,
\* the weights and the bias as they were; the sort inside predictKNN does not reorder
\* the stored training set.
C4_QueriesLeaveEngineUnchanged ==
  [][ (PredictLogisticRegression \/ PredictKNN \/ GetAccuracy)
      => UNCHANGED << heap, trainingData, scaleParams, lrWeights, lrBias >> ]_vars

\* predictKNN has returned after its sort put the distances in another order than
\* the order of the training records.
C4_Witness == KnnReturned /\ last.distances # QueryDistances

\* C5: predictKNN returns purchased = true exactly when the number of label-1 records
\* among the selected neighbours is strictly greater than k/2; a tie gives false.
C5_KnnStrictMajority ==
  KnnReturned =>
    /\ last.purchasedCount =
         Cardinality({ i \in DOMAIN last.neighbors : last.neighbors[i].purchased = Unit })
    /\ last.ret.purchased <=> (2 * last.purchasedCount > last.k)

\* The scenario of the specification, in units of a thousand for the salary: from
\* the training set [{20,30,0},{40,50,1}] the query (30,40) with k = 2 uses both
\* records, one of them purchased: a tie, with probability 1/2 and purchased = false.
C5_Witness ==
  /\ KnnReturned
  /\ TrainingSet = << RecA, RecB >>
  /\ last.age = FromInt(30) /\ last.salary = FromInt(40) /\ last.k = 2
  /\ 2 * last.purchasedCount = last.k
  /\ last.ret = [purchased |-> FALSE, probability |-> Unit \div 2]

\* C6: the probability predictKNN returns is purchasedCount / k, with purchasedCount
\* an integer between 0 and k, also when k exceeds the number of training records.
C6_KnnProbabilityIsCountOverK ==
  KnnReturned =>
    /\ last.purchasedCount \in 0..last.k
    /\ last.ret.probability = RoundDiv(last.purchasedCount * Unit, last.k)
    /\ last.ret.probability \in 0..Unit

\* predictKNN has returned a probability strictly between 0 and 1 for a k larger than
\* the training set.
C6_Witness ==
  /\ KnnReturned
  /\ last.k > Len(TrainingSet)
  /\ last.purchasedCount > 0
  /\ last.ret.probability > 0 /\ last.ret.probability < Unit

\* C7: when k is greater than the number n of training records, the neighbours are
\* all n records and purchasedCount is the number of label-1 records of the whole
\* training set.
C7_LargeKTakesAllRecords ==
  (KnnReturned /\ last.k > Len(TrainingSet)) =>
    /\ Len(last.neighbors) = Len(TrainingSet)
    /\ \A e \in { QueryDistances[j] : j \in DOMAIN QueryDistances } :
         Cardinality({ i \in DOMAIN last.neighbors : last.neighbors[i] = e })
           = Cardinality({ j \in DOMAIN QueryDistances : QueryDistances[j] = e })
    /\ last.purchasedCount =
         Cardinality({ i \in 1..Len(TrainingSet) : TrainingSet[i].Purchased = Unit })

\* predictKNN has returned for a k above the size of a training set of both labels.
C7_Witness ==
  /\ KnnReturned
  /\ last.k > Len(TrainingSet)
  /\ Len(TrainingSet) >= 2
  /\ last.purchasedCount \in 1..(Len(TrainingSet) - 1)

\* Record i comes before record j in the order the specification gives: nearer
\* first, and at equal distance (or where the distances do not compare) the one
\* earlier in the input.
Precedes(d, i, j) ==
  \/ Lt(d[i].dist, d[j].dist)
  \/ ~Lt(d[j].dist, d[i].dist) /\ i < j

\* The number of records that come before record i in that order.
Rank(d, i) == Cardinality({ j \in DOMAIN d : j # i /\ Precedes(d, j, i) })

Min(a, b) == IF a < b THEN a ELSE b

\* C8: the neighbours are the first min(k, n) training records in ascending order of
\* distance to the query, records at equal distance in input order; no selected
\* record is farther from the query than an unselected one.
C8_NearestFirstStable ==
  KnnReturned =>
    /\ Len(last.neighbors) = Min(last.k, Len(TrainingSet))
    /\ \A i \in DOMAIN QueryDistances :
         Rank(QueryDistances, i) < Len(last.neighbors)
           => last.neighbors[Rank(QueryDistances, i) + 1] = QueryDistances[i]
    /\ \A i \in DOMAIN last.neighbors, j \in DOMAIN last.distances :
         j > Len(last.neighbors) => ~Gt(last.neighbors[i].dist, last.distances[j].dist)

\* The cut-off fell between two records of different labels at the same distance.
C8_Witness ==
  /\ KnnReturned
  /\ last.k < Len(TrainingSet)
  /\ IsFinite(last.age) /\ IsFinite(last.salary)
  /\ last.neighbors[last.k].dist = last.distances[last.k + 1].dist
  /\ last.neighbors[last.k].purchased # last.distances[last.k + 1].purchased

\* The label the named algorithm predicts for training record i from its raw features.
PredictedLabel(algorithm, i) ==
  LET d == TrainingSet[i]
      p == IF algorithm = "LR"
             THEN predictLogisticRegression(scaleParams, lrWeights, lrBias, d.Age,
                                            d.EstimatedSalary).purchased
             ELSE predictKNN(TrainingSet, scaleParams, d.Age, d.EstimatedSalary,
                             defaultK).ret.purchased
  IN IF p THEN Unit ELSE 0

\* C9: for either algorithm and a non-empty training set, the accuracy is the number
\* of training records whose predicted label equals their true label, divided by the
\* number of training records, and lies in [0, 1].
C9_AccuracyIsFractionCorrect ==
  (pc = "returned" /\ last.op = "getAccuracy" /\ Len(TrainingSet) >= 1) =>
    /\ last.ret =
         RoundDiv(Cardinality({ i \in 1..Len(TrainingSet) :
                                  PredictedLabel(last.algorithm, i) = TrainingSet[i].Purchased })
                    * Unit,
                  Len(TrainingSet))
    /\ last.ret \in 0..Unit

\* An accuracy strictly between 0 and 1 has been returned.
C9_Witness ==
  /\ pc = "returned" /\ last.op = "getAccuracy"
  /\ Len(TrainingSet) >= 2
  /\ last.ret > 0 /\ last.ret < Unit

\* A prediction has returned for a query with a NaN or infinite feature.
NonFiniteQueryReturned ==
  /\ pc = "returned"
  /\ last.op \in { "predictLogisticRegression", "predictKNN" }
  /\ ~IsFinite(last.age) \/ ~IsFinite(last.salary)

\* C10 (as stated): for a query with a NaN or infinite feature the returned
\* probability is itself NaN or infinite.
C10_NonFiniteInNonFiniteOut ==
  NonFiniteQueryReturned => ~IsFinite(last.ret.probability)

\* C10 (as amended): a query with a NaN or infinite feature is answered, not rejected.
\* predictLogisticRegression returns probability NaN and purchased = false when a
\* feature is NaN, and probability 0, 1 or NaN (never an infinity) when a feature is
\* infinite, with purchased = true exactly for probability 1.  predictKNN returns the
\* ordinary probability purchasedCount / k, where purchasedCount counts the label-1
\* records among the first min(k, n) training records in input order, since no two
\* distances compare as different.
C10_NonFiniteQueryAnswered ==
  NonFiniteQueryReturned =>
    /\ last.op = "predictLogisticRegression" =>
         /\ (isNaN(last.age) \/ isNaN(last.salary)) => isNaN(last.ret.probability)
         /\ last.ret.probability \in { 0, Unit, NaN }
         /\ last.ret.purchased <=> last.ret.probability = Unit
    /\ last.op = "predictKNN" =>
         /\ last.purchasedCount =
              Cardinality({ i \in 1..Min(last.k, Len(TrainingSet)) :
                              TrainingSet[i].Purchased = Unit })
         /\ last.ret.probability = RoundDiv(last.purchasedCount * Unit, last.k)
         /\ last.ret.probability \in 0..Unit

\* predictKNN has answered a query whose age is NaN with a probability strictly
\* between 0 and 1, from a training set larger than k.
C10_Witness ==
  /\ KnnReturned
  /\ isNaN(last.age)
  /\ last.k < Len(TrainingSet)
  /\ last.ret.probability > 0 /\ last.ret.probability < Unit

\* Feature f (1: Age, 2: EstimatedSalary) of a record.
Feature(r, f) == IF f = 1 THEN r.Age ELSE r.EstimatedSalary

\* Feature f has the same value in every record the engine was built from.
ConstantFeature(f) ==
  \A i \in 1..Len(built) : Feature(built[i], f) = Feature(built[1], f)

\* The population standard deviation of feature f about the stored mean: the square
\* root of the sum of the squared deviations divided by n.
PopulationStd(f) ==
  Sqrt(Div(sum([i \in 1..Len(built) |-> Pow2(Sub(Feature(built[i], f), scaleParams.mean[f]))]),
           FromInt(Len(built))))

\* Standardizing the value v of feature f returns v minus the stored mean.
Centers(f, v) == scale(scaleParams, v, v)[f] = Sub(v, scaleParams.mean[f])

\* C11 (as stated): for a training set of length >= 1 a feature with the same value
\* in every record has the stored standard deviation 1 and is standardized to value
\* minus mean; a feature with non-zero variance keeps its population standard
\* deviation.
C11_ConstantFeatureStdIsOne ==
  (Constructed /\ Len(built) >= 1) =>
    \A f \in 1..2 :
      IF ConstantFeature(f)
        THEN /\ scaleParams.std[f] = Unit
             /\ \A q \in Queries : IsFinite(q[f]) => Centers(f, q[f])
        ELSE scaleParams.std[f] = PopulationStd(f)

\* C11 (as amended): construction does not fail; the stored mean is the sum of the
\* feature divided by n and the stored standard deviation is the population standard
\* deviation computed about that mean (divide by n), replaced by 1 when the computed
\* value is zero.  For a feature with the same value in every record the computed
\* value is zero, the stored deviation is 1 and standardizing returns value minus
\* mean, exactly when the computed mean equals the common value; when the sum of the
\* feature is not computed exactly (here: it overflows) the mean differs from the
\* common value and the stored deviation is the non-zero computed value, not 1.
C11_ZeroStdIsReplacedByOne ==
  (Constructed /\ Len(built) >= 1) =>
    \A f \in 1..2 :
      /\ scaleParams.mean[f] =
           Div(sum([i \in 1..Len(built) |-> Feature(built[i], f)]), FromInt(Len(built)))
      /\ scaleParams.std[f] = (IF PopulationStd(f) = 0 THEN Unit ELSE PopulationStd(f))
      /\ ConstantFeature(f) =>
           IF scaleParams.mean[f] = Feature(built[1], f)
             THEN /\ scaleParams.std[f] = Unit
                  /\ \A q \in Queries : IsFinite(q[f]) => Centers(f, q[f])
             ELSE /\ scaleParams.std[f] = PopulationStd(f)
                  /\ scaleParams.std[f] # Unit

\* An engine built from two or more records with a constant Age and a varying
\* EstimatedSalary has answered a query: the Age deviation is 1, the other is not.
C11_Witness ==
  /\ pc = "returned"
  /\ Len(built) >= 2
  /\ ConstantFeature(1) /\ ~ConstantFeature(2)
  /\ scaleParams.mean[1] = built[1].Age
  /\ scaleParams.std[1] = Unit
  /\ scaleParams.std[2] # Unit /\ IsFinite(scaleParams.std[2])

LrReturned == pc = "returned" /\ last.op = "predictLogisticRegression"

\* C12: predictLogisticRegression returns purchased = true exactly when the
\* probability it returns is at least 0.5; a probability of exactly 0.5 gives true
\* (and a NaN probability, which is not at least 0.5, gives false).
C12_LrThresholdAtLeastHalf ==
  LrReturned =>
    (last.ret.purchased <=> (~isNaN(last.ret.probability) /\ 2 * last.ret.probability >= Unit))

\* predictLogisticRegression has returned the probability 0.5 exactly, from an engine
\* built from a non-empty array.
C12_Witness ==
  /\ LrReturned
  /\ Len(built) >= 1
  /\ 2 * last.ret.probability = Unit
  /\ last.ret.purchased

\* A finite query has been answered by the logistic regression of an engine built
\* from a non-empty array (of finite values, as every array of the model is).
FiniteLrReturned ==
  /\ LrReturned
  /\ Len(built) >= 1
  /\ IsFinite(last.age) /\ IsFinite(last.salary)

\* The scaled query point, the two products and the score z of the query in `last`.
QueryScaled == scale(scaleParams, last.age, last.salary)
QueryProducts ==
  << Mul(lrWeights[1], QueryScaled[1]), Mul(lrWeights[2], QueryScaled[2]) >>
QueryZ == Add(Add(QueryProducts[1], QueryProducts[2]), lrBias)

\* Every number the prediction reads or computes before the sigmoid is finite.
QueryAllFinite ==
  \A f \in 1..2 : /\ IsFinite(scaleParams.mean[f]) /\ IsFinite(scaleParams.std[f])
                  /\ IsFinite(lrWeights[f]) /\ IsFinite(QueryScaled[f])
                  /\ IsFinite(QueryProducts[f])

\* C13 (as stated): for an engine built from a non-empty training set of finite
\* values and a finite query, predictLogisticRegression returns a probability in
\* [0, 1], never NaN.
C13_LrProbabilityInUnitInterval ==
  FiniteLrReturned => last.ret.probability \in 0..Unit

\* C13 (as amended): for such an engine and query the probability is in [0, 1] or is
\* NaN, never an infinity and never another value outside the interval; it is NaN
\* exactly when the score z is NaN, which needs a mean, a deviation, a weight, the
\* bias, a scaled feature or a product that has left the finite range; with all of
\* them finite the probability is in [0, 1].
C13_LrProbabilityInUnitIntervalOrNaN ==
  FiniteLrReturned =>
    /\ last.ret.probability \in 0..Unit \/ isNaN(last.ret.probability)
    /\ isNaN(last.ret.probability) <=> isNaN(QueryZ)
    /\ (QueryAllFinite /\ IsFinite(lrBias)) => last.ret.probability \in 0..Unit

\* A finite query has been answered with a probability strictly between 0 and 1,
\* every number on the way being finite.
C13_Witness ==
  /\ FiniteLrReturned
  /\ QueryAllFinite /\ IsFinite(lrBias)
  /\ Len(built) >= 2
  /\ last.ret.probability > 0 /\ last.ret.probability < Unit
  /\ 2 * last.ret.probability # Unit

\* diff = sigmoid(z) - label of standardized record d under the parameters of t.
TrainDiff(t, d) ==
  Sub(Sigmoid(Add(Add(Mul(t.w1, d.scaled[1]), Mul(t.w2, d.scaled[2])), t.b)), d.Purchased)

\* The sums of diff * x1, diff * x2 and diff over the records in input order, every
\* diff taken with the parameters t holds at the start of the iteration.
TrainSums(t) ==
  LET Sums(diffs) ==
        << sum([i \in 1..Len(diffs) |-> Mul(diffs[i], t.scaledData[i].scaled[1])]),
           sum([i \in 1..Len(diffs) |-> Mul(diffs[i], t.scaledData[i].scaled[2])]),
           sum(diffs) >>
  IN Sums([i \in 1..Len(t.scaledData) |-> TrainDiff(t, t.scaledData[i])])

\* p - (0.1 / m) * s
TrainStep(t, p, s) == Sub(p, Mul(Div(learningRate, t.m), s))

\* C16: training starts from w1 = w2 = b = 0 over the standardized records; every
\* iteration accumulates diff*x1, diff*x2 and diff over all records with the
\* parameters from its start and then updates each parameter once by 0.1/m times its
\* sum; the loop is left only after iteration 1000, the stored weights and bias are
\* those after the last iteration, and the training always terminates.
C16_TrainingRunsAllIterations ==
  /\ [][ (pc = "new" /\ pc' = "train") =>
           /\ train'.i = 0 /\ train'.w1 = 0 /\ train'.w2 = 0 /\ train'.b = 0
           /\ train'.m = FromInt(Len(heap["arg"]))
           /\ train'.scaledData = ScaledData(heap["arg"], scaleParams') ]_vars
  /\ [][ (pc = "train" /\ pc' = "train") =>
           LET Updated(s) ==
                 /\ train'.w1 = TrainStep(train, train.w1, s[1])
                 /\ train'.w2 = TrainStep(train, train.w2, s[2])
                 /\ train'.b = TrainStep(train, train.b, s[3])
           IN /\ train.i < iterations
              /\ train'.i = train.i + 1
              /\ Updated(TrainSums(train))
              /\ train'.m = train.m /\ train'.scaledData = train.scaledData ]_vars
  /\ [][ (pc = "train" /\ pc' # "train") =>
           /\ train.i = iterations
           /\ pc' = "ready"
           /\ lrWeights' = << train.w1, train.w2 >>
           /\ lrBias' = train.b ]_vars
  /\ [](pc = "new" => <>(pc = "ready" /\ train.i = iterations))

\* The constructor has returned after 1000 iterations over two or more records, with
\* weights that have moved away from zero.
C16_Witness ==
  /\ pc = "ready"
  /\ Len(built) >= 2
  /\ train.i = iterations
  /\ lrWeights = << train.w1, train.w2 >> /\ lrBias = train.b
  /\ lrWeights[1] # 0 /\ lrWeights[2] # 0

\* The answer the first of the two engines gives to the query in `last`.
TwinAnswer ==
  IF last.op = "predictLogisticRegression"
    THEN predictLogisticRegression(twin.scaleParams, twin.lrWeights, twin.lrBias,
                                   last.age, last.salary)
  ELSE IF last.op = "predictKNN"
    THEN predictKNN(twin.trainingData, twin.scaleParams, last.age, last.salary, last.k).ret
  ELSE getAccuracy(twin.trainingData, twin.scaleParams, twin.lrWeights, twin.lrBias,
                   last.algorithm).ret

NeighbourPositions(td, sp, age, salary, k) ==
  LET Tag(distances) ==
        [i \in 1..Len(distances) |-> [dist |-> distances[i].dist, pos |-> i]]
      Positions(nearest) == { nearest[j].pos : j \in 1..Len(nearest) }
  IN Positions(slice(sort(Tag(distancesOf(td, sp, scale(sp, age, salary)))), k))

\* The second engine, built from the records with Age multiplied by twin.factor, has
\* answered predictKNN for a query point with Age multiplied by the same factor.
RescaledKnnReturned ==
  /\ KnnReturned
  /\ twin.set
  /\ "asked" \in DOMAIN last
  /\ Len(built) >= 1

\* The standardized records and the standardized query point of the second engine
\* are those of the first.
SameStandardized ==
  /\ scale(scaleParams, last.age, last.salary)
       = scale(twin.scaleParams, last.asked[1], last.asked[2])
  /\ \A i \in 1..Len(TrainingSet) :
       scale(scaleParams, TrainingSet[i].Age, TrainingSet[i].EstimatedSalary)
         = scale(twin.scaleParams, twin.trainingData[i].Age,
                 twin.trainingData[i].EstimatedSalary)

\* The second engine selects the neighbours at the input positions the first engine
\* selects, and returns the first engine's result.
SameNeighbours ==
  /\ NeighbourPositions(TrainingSet, scaleParams, last.age, last.salary, last.k)
       = NeighbourPositions(twin.trainingData, twin.scaleParams, last.asked[1],
                            last.asked[2], last.k)
  /\ last.ret = predictKNN(twin.trainingData, twin.scaleParams, last.asked[1],
                           last.asked[2], last.k).ret

StoredAfterUpload == app.mounted /\ app.results.set /\ app.results.uploads > 0

\* C17: once the App's data set has been replaced by an upload, every result the App
\* stores comes from an engine constructed from the new data set, also when the
\* prediction was waiting for its 800 ms timer while the data set was replaced.
C17_ResultsComeFromCurrentData ==
  StoredAfterUpload => app.results.trainingData = app.results.data

====
